---- MODULE Spec2Model ----
(***************************************************************************)
(* The paging core of thermite: Frame and Page arithmetic, the recursive   *)
(* four-level page tables, InactivePageTable::new, ActivePageTable::with   *)
(* and remap_the_kernel.                                                   *)
(*                                                                         *)
(* usize/u64 values are 64 bits wide; TLC's integers are 32 bits wide, so  *)
(* a 64-bit word is a tuple of four 16-bit limbs, least significant first, *)
(* and the arithmetic of the code is carried out limb by limb.             *)
(***************************************************************************)
EXTENDS Integers, Naturals, Sequences, FiniteSets, TLC

VARIABLES
    cr3,        \* the hardware root-table register (a physical address)
    mem,        \* physical memory: frame number -> table of ENTRY_COUNT entries
    free,       \* the frames the FrameAllocator can still hand out, in order
    tiny,       \* TemporaryPage's private pool of frames
    sections,   \* the boot information's ELF sections
    pc,         \* position in remap_the_kernel
    halted,     \* "" or the message of the panic that stopped the kernel
    p4_frame,   \* new_table.p4_frame, once InactivePageTable::new has run
    backup,     \* with's local `backup`
    sec,        \* index of the section the closure's outer loop is at
    address,    \* the closure's inner loop variable
    events,     \* the hardware-visible steps taken so far, in order
    entry_at_call, \* history: slot 511 of the backup table when `with` was entered
    nest,       \* a second call of `with` made by the action of the first
    arg,        \* the address (or page number) a pure function is applied to
    arg2,       \* the second frame number of a comparison
    op,         \* the pure function applied, "none" before the call
    ret         \* its result

machine == <<cr3, mem, free, tiny, sections, pc, halted, p4_frame, backup,
             sec, address, events, entry_at_call, nest>>
pure == <<arg, arg2, op, ret>>
vars == <<cr3, mem, free, tiny, sections, pc, halted, p4_frame, backup,
          sec, address, events, entry_at_call, nest, arg, arg2, op, ret>>

-----------------------------------------------------------------------------
(* 64-bit words *)

Limb == 2^16

\* the word 0xaaaa_bbbb_cccc_dddd
Hex(a, b, c, d) == <<d, c, b, a>>

\* a natural number below 2^31 as a word
W(n) == <<n % Limb, n \div Limb, 0, 0>>

Zero == <<0, 0, 0, 0>>

\* a / d for a divisor d of at most 2^14 (schoolbook division, top limb first)
WDiv(a, d) ==
    LET q4 == a[4] \div d
        r4 == a[4] % d
        c3 == r4 * Limb + a[3]
        q3 == c3 \div d
        r3 == c3 % d
        c2 == r3 * Limb + a[2]
        q2 == c2 \div d
        r2 == c2 % d
        c1 == r2 * Limb + a[1]
        q1 == c1 \div d
    IN  <<q1, q2, q3, q4>>

\* a % d for a divisor d of at most 2^14
WMod(a, d) ==
    LET r4 == a[4] % d
        r3 == (r4 * Limb + a[3]) % d
        r2 == (r3 * Limb + a[2]) % d
    IN  (r2 * Limb + a[1]) % d

\* a * m modulo 2^64 for a factor m of at most 2^14
WMul(a, m) ==
    LET c1 == a[1] * m
        c2 == a[2] * m + (c1 \div Limb)
        c3 == a[3] * m + (c2 \div Limb)
        c4 == a[4] * m + (c3 \div Limb)
    IN  <<c1 % Limb, c2 % Limb, c3 % Limb, c4 % Limb>>

\* a + b modulo 2^64
WAdd(a, b) ==
    LET c1 == a[1] + b[1]
        c2 == a[2] + b[2] + (c1 \div Limb)
        c3 == a[3] + b[3] + (c2 \div Limb)
        c4 == a[4] + b[4] + (c3 \div Limb)
    IN  <<c1 % Limb, c2 % Limb, c3 % Limb, c4 % Limb>>

\* a < b
WLess(a, b) ==
    \/ a[4] < b[4]
    \/ a[4] = b[4] /\ a[3] < b[3]
    \/ a[4] = b[4] /\ a[3] = b[3] /\ a[2] < b[2]
    \/ a[4] = b[4] /\ a[3] = b[3] /\ a[2] = b[2] /\ a[1] < b[1]

\* a >> k
RECURSIVE WShr(_, _)
WShr(a, k) ==
    IF k = 0 THEN a
    ELSE IF k > 14 THEN WShr(WDiv(a, 2^14), k - 14)
    ELSE WDiv(a, 2^k)

\* a << k
RECURSIVE WShl(_, _)
WShl(a, k) ==
    IF k = 0 THEN a
    ELSE IF k > 14 THEN WShl(WMul(a, 2^14), k - 14)
    ELSE WMul(a, 2^k)

\* bitwise and / or of two limbs
RECURSIVE And16(_, _)
And16(x, y) ==
    IF x = 0 \/ y = 0 THEN 0
    ELSE IF x = y \/ y = Limb - 1 THEN x
    ELSE IF x = Limb - 1 THEN y
    ELSE (x % 2) * (y % 2) + 2 * And16(x \div 2, y \div 2)

RECURSIVE Or16(_, _)
Or16(x, y) ==
    IF x = 0 \/ x = y THEN y
    ELSE IF y = 0 THEN x
    ELSE (IF x % 2 = 1 \/ y % 2 = 1 THEN 1 ELSE 0) + 2 * Or16(x \div 2, y \div 2)

\* a & b, a | b
WAnd(a, b) ==
    <<And16(a[1], b[1]), And16(a[2], b[2]), And16(a[3], b[3]), And16(a[4], b[4])>>
WOr(a, b) ==
    <<Or16(a[1], b[1]), Or16(a[2], b[2]), Or16(a[3], b[3]), Or16(a[4], b[4])>>

\* a word below 2^16 as a natural number (a table index)
Index(a) == a[1]

-----------------------------------------------------------------------------
(* memory/mod.rs: Frame *)

PAGE_SIZE == 4096

\* a slip: the frame number rounded up instead of down
Frame_containing_address_roundup(a) ==
    [number |-> WDiv(WAdd(a, W(PAGE_SIZE - 1)), PAGE_SIZE)]

Frame_containing_address(a) == [number |-> WDiv(a, PAGE_SIZE)]

Frame_start_address(f) == WMul(f.number, PAGE_SIZE)

\* a slip: the numbers compared by their low 16 bits
Frame_lt_low(x, y) == x.number[1] < y.number[1]

\* x < y and x == y of #[derive(PartialEq, Eq, PartialOrd, Ord)]: the order
\* and the equality of the one field, number
Frame_lt(x, y) == WLess(x.number, y.number)

Frame_eq(x, y) == x.number = y.number

-----------------------------------------------------------------------------
(* memory/paging/mod.rs: Page *)

ENTRY_COUNT == 512

Page_start_address(p) == WMul(p.number, PAGE_SIZE)

\* a slip: the upper bound of the lower half taken inclusive
Page_containing_address_assert_inclusive(a) ==
    ~WLess(Hex(\h0000, \h8000, \h0000, \h0000), a)
        \/ ~WLess(a, Hex(\hffff, \h8000, \h0000, \h0000))

\* the condition asserted by Page::containing_address
Page_containing_address_assert(a) ==
    WLess(a, Hex(\h0000, \h8000, \h0000, \h0000))
        \/ ~WLess(a, Hex(\hffff, \h8000, \h0000, \h0000))

\* a slip: the address taken as the page number
Page_containing_address_nodiv(a) == [number |-> a]

\* the value Page::containing_address returns when its assertion holds
Page_containing_address(a) == [number |-> WDiv(a, PAGE_SIZE)]

p4_index(p) == Index(WAnd(WShr(p.number, 27), W(\o777)))
p3_index(p) == Index(WAnd(WShr(p.number, 18), W(\o777)))
p2_index(p) == Index(WAnd(WShr(p.number, 9), W(\o777)))
p1_index(p) == Index(WAnd(WShr(p.number, 0), W(\o777)))

-----------------------------------------------------------------------------
(* The pure functions applied to sample inputs *)

SampleLimb4 == {\h0000, \h000f, \h0010, \h7fff, \h8000, \hffff}
SampleLimb3 == {\h0000, \h7fff, \h8000, \hffff}
SampleLimb2 == {\h0000, \hcafe, \hffff}
SampleLimb1 == {\h0000, \h0001, \h0fff, \h1000, \hbabe, \hf000, \hffff}

SampleWords ==
    {<<w1, w2, w3, w4>> : w1 \in SampleLimb1, w2 \in SampleLimb2,
                          w3 \in SampleLimb3, w4 \in SampleLimb4}

\* the numbers a frame of number `arg` is compared with: 0, 1, 0xcafebabe,
\* 2^52 - 1, 2^52 and 2^52 + 1
CompareWords ==
    { Zero, W(1), Hex(\h0000, \h0000, \hcafe, \hbabe),
      Hex(\h000f, \hffff, \hffff, \hffff), Hex(\h0010, \h0000, \h0000, \h0000),
      Hex(\h0010, \h0000, \h0000, \h0001) }

\* no second call of `with`
NestOff ==
    [state |-> "off", own |-> FALSE, table |-> [number |-> Zero],
     pool |-> <<>>, saved |-> <<>>]

NoResult == [halt |-> "", number |-> Zero, start |-> Zero]

\* the machine is not running while the pure functions are exercised
MachineOff ==
    /\ cr3 = Zero
    /\ mem = <<>>
    /\ free = <<>>
    /\ tiny = <<>>
    /\ sections = <<>>
    /\ pc = "off"
    /\ halted = ""
    /\ p4_frame = [number |-> Zero]
    /\ backup = [number |-> Zero]
    /\ sec = 0
    /\ address = Zero
    /\ events = <<>>
    /\ entry_at_call = Zero
    /\ nest = NestOff

PureInit ==
    /\ MachineOff
    /\ arg \in SampleWords
    /\ arg2 \in CompareWords
    /\ op = "none"
    /\ ret = NoResult

\* Frame::containing_address(arg), then start_address() of the result
CallFrameContainingAddress ==
    /\ op = "none"
    /\ op' = "Frame::containing_address"
    /\ LET f == Frame_containing_address(arg)
       IN  ret' = [halt |-> "", number |-> f.number,
                   start |-> Frame_start_address(f)]
    /\ UNCHANGED <<arg, arg2, machine>>

\* Page::containing_address(arg)
CallPageContainingAddress ==
    /\ op = "none"
    /\ op' = "Page::containing_address"
    /\ IF Page_containing_address_assert(arg)
       THEN LET p == Page_containing_address(arg)
            IN  ret' = [halt |-> "", number |-> p.number,
                        start |-> Page_start_address(p)]
       ELSE ret' = [NoResult EXCEPT !.halt = "invalid address"]
    /\ UNCHANGED <<arg, arg2, machine>>

\* Page::containing_address(p.start_address()) for the page p = Page { number: arg }.
\* A number of 2^52 or more overflows start_address(): a build with overflow
\* checks panics, a build without them wraps.
CallPageRoundTrip ==
    /\ op = "none"
    /\ op' = "Page::containing_address(p.start_address())"
    /\ LET p == [number |-> arg]
           s == Page_start_address(p)
           overflows == arg[4] >= 2^4
       IN  \/ /\ overflows
              /\ ret' = [NoResult EXCEPT !.halt = "attempt to multiply with overflow"]
           \/ /\ Page_containing_address_assert(s)
              /\ ret' = [halt |-> "", number |-> Page_containing_address(s).number,
                         start |-> s]
           \/ /\ ~Page_containing_address_assert(s)
              /\ ret' = [NoResult EXCEPT !.halt = "invalid address", !.start = s]
    /\ UNCHANGED <<arg, arg2, machine>>

\* x < y, x == y and y < x for the frames x = Frame { number: arg } and
\* y = Frame { number: arg2 }, and start_address() of both.  A number of 2^52
\* or more overflows start_address(): a build with overflow checks panics, a
\* build without them wraps.
CallFrameCompare ==
    /\ op = "none"
    /\ op' = "Frame::cmp"
    /\ LET x == [number |-> arg]
           y == [number |-> arg2]
           overflows == arg[4] >= 2^4 \/ arg2[4] >= 2^4
       IN  \/ /\ overflows
              /\ ret' = [halt |-> "attempt to multiply with overflow",
                         number |-> Zero, start |-> Zero, start2 |-> Zero,
                         lt |-> Frame_lt(x, y), eq |-> Frame_eq(x, y),
                         gt |-> Frame_lt(y, x)]
           \/ ret' = [halt |-> "", number |-> Zero,
                      start |-> Frame_start_address(x),
                      start2 |-> Frame_start_address(y),
                      lt |-> Frame_lt(x, y), eq |-> Frame_eq(x, y),
                      gt |-> Frame_lt(y, x)]
    /\ UNCHANGED <<arg, arg2, machine>>

PureNext ==
    \/ CallFrameContainingAddress
    \/ CallPageContainingAddress
    \/ CallPageRoundTrip
    \/ CallFrameCompare

SpecPure == PureInit /\ [][PureNext]_vars

-----------------------------------------------------------------------------
(* Claims about the pure functions, under SpecPure *)

\* the addresses of the non-canonical hole, told from the limbs:
\* 0x0000_8000_0000_0000 <= a < 0xffff_8000_0000_0000
InHole(a) ==
    \/ a[4] = \h0000 /\ a[3] >= \h8000
    \/ a[4] > \h0000 /\ a[4] < \hffff
    \/ a[4] = \hffff /\ a[3] < \h8000

\* n is a / 4096 rounded down: a = n * 4096 + off with 0 <= off < 4096 and
\* n * 4096 does not leave 64 bits
IsQuotient(n, a) ==
    /\ n[4] < 2^4
    /\ \E off \in 0..(PAGE_SIZE - 1) :
          /\ WMul(n, PAGE_SIZE)[1] + off < Limb
          /\ WAdd(WMul(n, PAGE_SIZE), W(off)) = a

\* C8: Page::containing_address(a) halts on its assertion exactly for the
\* addresses a with 0x0000_8000_0000_0000 <= a < 0xffff_8000_0000_0000, and
\* returns the page of number a / 4096 for every other address.
C8_CanonicalValidation ==
    op = "Page::containing_address" =>
        /\ (ret.halt = "invalid address") <=> InHole(arg)
        /\ ~InHole(arg) => ret.halt = "" /\ IsQuotient(ret.number, arg)

\* both edges of the hole and both of its neighbours have been tried
C8_Witness ==
    /\ op = "Page::containing_address"
    /\ arg = Hex(\h0000, \h8000, \h0000, \h0000)
    /\ ret.halt = "invalid address"

\* C9: f = Frame::containing_address(a) has f.start_address() <= a <
\* f.start_address() + 4096, and f.start_address() is a multiple of 4096.
C9_FrameContainsAddress ==
    op = "Frame::containing_address" =>
        /\ ~WLess(arg, ret.start)
        /\ \E off \in 0..(PAGE_SIZE - 1) :
              /\ ret.start[1] + off < Limb
              /\ WAdd(ret.start, W(off)) = arg
        /\ ret.start[1] % PAGE_SIZE = 0

\* an address in the middle of a frame, in the upper half of the address space
C9_Witness ==
    /\ op = "Frame::containing_address"
    /\ arg = Hex(\hffff, \hffff, \hcafe, \hbabe)
    /\ ret.start = Hex(\hffff, \hffff, \hcafe, \hb000)

\* the low 36 bits of a page number put together again from four indices
Recompose(i4, i3, i2, i1) ==
    WAdd(WAdd(WShl(W(i4), 27), WShl(W(i3), 18)), WAdd(WShl(W(i2), 9), W(i1)))

Low36(n) == <<n[1], n[2], n[3] % 2^4, 0>>

\* C10: for a page p with a canonical start address,
\* q = Page::containing_address(p.start_address()) has the same four indices
\* as p, each index is in 0..511, and the indices are the bit fields 27..35,
\* 18..26, 9..17 and 0..8 of the page number.
C10_IndexRoundTrip ==
    (op = "Page::containing_address(p.start_address())" /\ ret.halt = "") =>
        LET p == [number |-> arg]
            q == [number |-> ret.number]
        IN  /\ p4_index(q) = p4_index(p)
            /\ p3_index(q) = p3_index(p)
            /\ p2_index(q) = p2_index(p)
            /\ p1_index(q) = p1_index(p)
            /\ {p4_index(q), p3_index(q), p2_index(q), p1_index(q)}
                    \subseteq 0..(ENTRY_COUNT - 1)
            /\ Recompose(p4_index(p), p3_index(p), p2_index(p), p1_index(p))
                    = Low36(p.number)

\* the page of number 0xcafebabe: indices 0o031, 0o277, 0o535, 0o276
C10_Witness ==
    /\ op = "Page::containing_address(p.start_address())"
    /\ ret.halt = ""
    /\ arg = Hex(\h0000, \h0000, \hcafe, \hbabe)
    /\ p1_index([number |-> ret.number]) = \o276
    /\ p4_index([number |-> ret.number]) = \o031
    /\ p3_index([number |-> ret.number]) = \o277
    /\ p2_index([number |-> ret.number]) = \o535

-----------------------------------------------------------------------------
(* memory/paging/entry.rs: one 64-bit slot, the physical address of a frame *)
(* packed with flag bits                                                   *)

PRESENT == W(2^0)
WRITABLE == W(2^1)
ACCESSED == W(2^5)
DIRTY == W(2^6)
HUGE_PAGE == W(2^7)

\* bits 12..51 of an entry hold the address
ADDRESS_MASK == Hex(\h000f, \hffff, \hffff, \hf000)

Contains(e, flags) == WAnd(e, flags) = flags

Entry_is_unused(e) == e = Zero

Entry_pointed_frame(e) ==
    [some |-> Contains(e, PRESENT),
     frame |-> Frame_containing_address(WAnd(e, ADDRESS_MASK))]

\* the value Entry::set(frame, flags) stores
Entry_set(frame, flags) == WOr(Frame_start_address(frame), flags)

-----------------------------------------------------------------------------
(* The hardware: physical memory and the four-level walk from a root table *)

Slots == 0..(ENTRY_COUNT - 1)

\* A table has ENTRY_COUNT slots.  It is kept as the function from its
\* non-zero slots to their entries; every other slot holds zero.
ZeroedTable == [i \in {} |-> Zero]

\* table[i]
Get(t, i) == IF i \in DOMAIN t THEN t[i] ELSE Zero

\* the table with table[i] = e
Put(t, i, e) ==
    IF e = Zero
    THEN [j \in DOMAIN t \ {i} |-> t[j]]
    ELSE [j \in DOMAIN t \cup {i} |-> IF j = i THEN e ELSE t[j]]

\* the 9-bit field of a virtual address that selects the slot at a level
\* (level 4 is the root table, level 1 the table of pages)
HwIndex(vaddr, level) == WShr(vaddr, 12 + 9 * (level - 1))[1] % 2^9

\* F applied to the value of v.  The value is computed once, however often
\* F uses it.
Let(v, F(_)) == CHOOSE r \in {F(x) : x \in {v}} : TRUE

NoFrame == [ok |-> FALSE, frame |-> Zero, huge |-> FALSE]

\* one level down from the table in frame t.frame through slot i
HwStep(memory, t, i) ==
    IF t.ok /\ t.frame \in DOMAIN memory
    THEN Let(Get(memory[t.frame], i), LAMBDA e :
             IF Contains(e, PRESENT)
             THEN [ok |-> TRUE,
                   frame |-> Entry_pointed_frame(e).frame.number,
                   huge |-> Contains(e, HUGE_PAGE)]
             ELSE NoFrame)
    ELSE NoFrame

\* the frame the walk from the table in frame `root` reaches for vaddr;
\* a 2 MiB entry at level 2 ends the walk
HwWalk(memory, root, vaddr) ==
    Let(HwStep(memory, [ok |-> TRUE, frame |-> root, huge |-> FALSE],
               HwIndex(vaddr, 4)), LAMBDA t3 :
    Let(HwStep(memory, t3, HwIndex(vaddr, 3)), LAMBDA t2 :
    Let(HwStep(memory, t2, HwIndex(vaddr, 2)), LAMBDA t1 :
        IF t1.ok /\ t1.huge
        THEN [t1 EXCEPT !.frame = WAdd(t1.frame, W(HwIndex(vaddr, 1)))]
        ELSE HwStep(memory, t1, HwIndex(vaddr, 1)))))

\* the machine as one value
M == [cr3 |-> cr3, mem |-> mem, free |-> free, tiny |-> tiny, halted |-> halted]

Halt(m, message) == [m EXCEPT !.halted = message]

\* the frame behind the virtual address of a table, as the processor finds it
TableFrame(m, table) ==
    HwWalk(m.mem, Frame_containing_address(m.cr3).number, table)

Reaches(m, r) == r.ok /\ r.frame \in DOMAIN m.mem

Accessible(m, table) == Let(TableFrame(m, table), LAMBDA r : Reaches(m, r))

\* table[i]
Load(m, table, i) == Get(m.mem[TableFrame(m, table).frame], i)

\* table[i] = e
Store(m, table, i, e) ==
    IF m.halted # "" THEN m
    ELSE Let(TableFrame(m, table), LAMBDA r :
             IF ~Reaches(m, r) THEN Halt(m, "page fault")
             ELSE [m EXCEPT !.mem[r.frame] = Put(@, i, e)])

-----------------------------------------------------------------------------
(* memory/paging/table.rs *)

\* the virtual address of the level 4 table through the recursive slot
P4 == Hex(\hffff, \hffff, \hffff, \hf000)

\* table.zero()
Table_zero(m, table) ==
    IF m.halted # "" THEN m
    ELSE Let(TableFrame(m, table), LAMBDA r :
             IF ~Reaches(m, r) THEN Halt(m, "page fault")
             ELSE [m EXCEPT !.mem[r.frame] = ZeroedTable])

\* the address of the table slot i of `table` points at
next_table_address(m, table, i) ==
    Let(Load(m, table, i), LAMBDA e :
        [some |-> Contains(e, PRESENT) /\ ~Contains(e, HUGE_PAGE),
         table |-> WOr(WShl(table, 9), WShl(W(i), 12))])

NoFrameLeft == [some |-> FALSE, frame |-> [number |-> Zero]]

\* allocator.allocate_frame() of the FrameAllocator ("main") or of
\* TemporaryPage's pool ("tiny"), which hands out its first frame
allocate_frame(m, which) ==
    IF which = "main"
    THEN IF m.free = <<>>
         THEN [m |-> m, some |-> FALSE, frame |-> [number |-> Zero]]
         ELSE [m |-> [m EXCEPT !.free = Tail(@)], some |-> TRUE,
               frame |-> Head(m.free)]
    ELSE IF \E k \in DOMAIN m.tiny : m.tiny[k].some
         THEN Let(CHOOSE j \in DOMAIN m.tiny :
                      /\ m.tiny[j].some
                      /\ \A h \in DOMAIN m.tiny : h < j => ~m.tiny[h].some,
                  LAMBDA k :
                      [m |-> [m EXCEPT !.tiny[k] = NoFrameLeft],
                       some |-> TRUE, frame |-> m.tiny[k].frame])
         ELSE [m |-> m, some |-> FALSE, frame |-> [number |-> Zero]]

\* a slip: the frame is entered in slot i as it is, whatever it held
install_table_unzeroed(m, table, i, frame, next) ==
    Store(m, table, i, Entry_set(frame, WOr(PRESENT, WRITABLE)))

\* the frame is entered in slot i and the table in it is zeroed
install_table(m, table, i, frame, next) ==
    Let(Store(m, table, i, Entry_set(frame, WOr(PRESENT, WRITABLE))),
        LAMBDA stored : Table_zero(stored, next))

\* table.next_table_create(i, allocator): the machine afterwards and the
\* address of the next table
next_table_create(m, table, i, which) ==
    IF m.halted # "" THEN [m |-> m, table |-> Zero]
    ELSE
    Let(TableFrame(m, table), LAMBDA r :
        IF ~Reaches(m, r)
        THEN [m |-> Halt(m, "page fault"), table |-> Zero]
        ELSE
    Let(Get(m.mem[r.frame], i), LAMBDA e :
    Let(WOr(WShl(table, 9), WShl(W(i), 12)), LAMBDA next :
        IF Contains(e, PRESENT) /\ ~Contains(e, HUGE_PAGE)
        THEN [m |-> m, table |-> next]
        ELSE IF Contains(e, HUGE_PAGE)
        THEN [m |-> Halt(m, "mapping code does not support huge pages"),
              table |-> Zero]
        ELSE
    Let(allocate_frame(m, which), LAMBDA a :
        IF ~a.some
        THEN [m |-> Halt(m, "no frames available"), table |-> Zero]
        ELSE [m |-> install_table(a.m, table, i, a.frame, next),
              table |-> next]))))

-----------------------------------------------------------------------------
(* memory/paging/mapper.rs *)

NoTable == [some |-> FALSE, table |-> Zero]

\* table.next_table(i) of a table that may be missing
next_table(m, t, i) ==
    IF ~t.some THEN NoTable
    ELSE IF ~Accessible(m, t.table) THEN NoTable
    ELSE next_table_address(m, t.table, i)

\* the level 1 table of a page, when the tables above it lead to one
p1_of(m, page) ==
    Let(next_table(m, [some |-> TRUE, table |-> P4], p4_index(page)), LAMBDA p3 :
    Let(next_table(m, p3, p3_index(page)), LAMBDA p2 :
    Let(next_table(m, p2, p2_index(page)), LAMBDA p1 :
        IF p1.some /\ Accessible(m, p1.table) THEN p1 ELSE NoTable)))

\* Mapper::translate(virtual_address)
translate(m, virtual_address) ==
    Let(Page_containing_address(virtual_address), LAMBDA page :
    Let(p1_of(m, page), LAMBDA p1 :
        IF ~p1.some THEN [some |-> FALSE, address |-> Zero]
        ELSE
    Let(Entry_pointed_frame(Load(m, p1.table, p1_index(page))), LAMBDA target :
        IF target.some
        THEN [some |-> TRUE,
              address |-> WAdd(WMul(target.frame.number, PAGE_SIZE),
                               W(WMod(virtual_address, PAGE_SIZE)))]
        ELSE [some |-> FALSE, address |-> Zero])))

\* another map_to: a page that is mapped already is refused
map_to_unused_only(m, page, frame, flags, which) ==
    Let(next_table_create(m, P4, p4_index(page), which), LAMBDA p3 :
    Let(next_table_create(p3.m, p3.table, p3_index(page), which), LAMBDA p2 :
    Let(next_table_create(p2.m, p2.table, p2_index(page), which), LAMBDA p1 :
        IF p1.m.halted # "" THEN p1.m
        ELSE IF ~Accessible(p1.m, p1.table) THEN Halt(p1.m, "page fault")
        ELSE IF ~Entry_is_unused(Load(p1.m, p1.table, p1_index(page)))
        THEN Halt(p1.m, "page is already mapped")
        ELSE Store(p1.m, p1.table, p1_index(page),
                   Entry_set(frame, WOr(flags, PRESENT))))))

\* Mapper::map_to(page, frame, flags, allocator)
map_to(m, page, frame, flags, which) ==
    Let(next_table_create(m, P4, p4_index(page), which), LAMBDA p3 :
    Let(next_table_create(p3.m, p3.table, p3_index(page), which), LAMBDA p2 :
    Let(next_table_create(p2.m, p2.table, p2_index(page), which), LAMBDA p1 :
        Store(p1.m, p1.table, p1_index(page),
              Entry_set(frame, WOr(flags, PRESENT))))))

\* a slip: the page after the frame's page is mapped
identity_map_next_page(m, frame, flags, which) ==
    map_to(m, [number |-> WAdd(frame.number, W(1))], frame, flags, which)

\* Mapper::identity_map(frame, flags, allocator)
identity_map(m, frame, flags, which) ==
    IF m.halted # "" THEN m
    ELSE IF ~Page_containing_address_assert(Frame_start_address(frame))
    THEN Halt(m, "invalid address")
    ELSE map_to(m, Page_containing_address(Frame_start_address(frame)), frame,
                flags, which)

\* Mapper::unmap(page, allocator): the level 1 entry of the page is cleared
unmap(m, page) ==
    IF m.halted # "" THEN m
    ELSE Let(p1_of(m, page), LAMBDA p1 :
             IF ~p1.some THEN Halt(m, "page is not mapped")
             ELSE Store(m, p1.table, p1_index(page), Zero))

-----------------------------------------------------------------------------
(* memory/paging/temporary_page.rs *)

\* the page remap_the_kernel reserves: Page { number: 0xcafebabe }
TEMPORARY_PAGE == [number |-> Hex(\h0000, \h0000, \hcafe, \hbabe)]

\* the table view map_table_frame returns: the address of the temporary page
TemporaryTable == Page_start_address(TEMPORARY_PAGE)

\* the number of frames TemporaryPage keeps for the tables of its own page:
\* one per level below the root
TINY_FRAMES == 3

\* TemporaryPage::new(page, allocator): the pool is filled from the allocator
RECURSIVE TinyAllocator_new(_, _)
TinyAllocator_new(m, k) ==
    IF k = 0 THEN m
    ELSE Let(allocate_frame(m, "main"), LAMBDA a :
         Let([a.m EXCEPT !.tiny = Append(@, [some |-> a.some, frame |-> a.frame])],
             LAMBDA filled : TinyAllocator_new(filled, k - 1)))

\* temporary_page.map_table_frame(frame, active_table)
map_table_frame(m, frame) == map_to(m, TEMPORARY_PAGE, frame, WRITABLE, "tiny")

\* temporary_page.unmap(active_table)
TemporaryPage_unmap(m) == unmap(m, TEMPORARY_PAGE)

-----------------------------------------------------------------------------
(* memory/paging/mod.rs: InactivePageTable::new, ActivePageTable::with and *)
(* the closure of remap_the_kernel, step by step                           *)

RW == WOr(PRESENT, WRITABLE)

\* a slip: the table is not zeroed
new_zero_skipped(m) == m

\* table.zero() through the view of the temporary page (line 128)
new_zero(m) == Table_zero(m, TemporaryTable)

\* table[511].set(frame.clone(), PRESENT | WRITABLE) (line 130)
new_set_recursive(m, frame) == Store(m, TemporaryTable, 511, Entry_set(frame, RW))

\* a slip: the recursive slot is left alone
with_overwrite_skipped(m, frame) == m

\* the other way to reach the inactive table: loading it into the register
with_overwrite_switch(m, frame) ==
    [m EXCEPT !.cr3 = Frame_start_address(frame)]

\* self.p4_mut()[511].set(table.p4_frame.clone(), PRESENT | WRITABLE) (line 100)
with_overwrite(m, frame) == Store(m, P4, 511, Entry_set(frame, RW))

\* a slip: the recursive slot is not restored
with_restore_skipped(m, frame) == m

\* a slip: the entry restored without WRITABLE
with_restore_readonly(m, frame) ==
    Store(m, TemporaryTable, 511, Entry_set(frame, PRESENT))

\* p4_table[511].set(backup, PRESENT | WRITABLE) (line 107)
with_restore(m, frame) == Store(m, TemporaryTable, 511, Entry_set(frame, RW))

\* a slip: the test of line 161 left out
section_allocated_always(section) == TRUE

\* section.flags().contains(ELF_SECTION_ALLOCATED) (line 161)
section_allocated(section) == "ALLOCATED" \in section.flags

\* the other reading of line 169: the flags taken from the section
section_flags_of_section(section) ==
    IF "WRITABLE" \in section.flags THEN WRITABLE ELSE Zero

\* let flags = WRITABLE (line 169)
section_flags(section) == WRITABLE

\* a slip: the end of the range taken inclusive
section_range_inclusive(section) ==
    [start |-> section.addr,
     end |-> WAdd(WAdd(section.addr, section.size), W(1))]

\* the Range of lines 171-174
section_range(section) ==
    [start |-> section.addr, end |-> WAdd(section.addr, section.size)]

-----------------------------------------------------------------------------
(* The machine at boot *)

\* how many sections the boot information holds at most
MaxSections == 2

\* how many frames the allocator holds at most
MaxFrames == 9

\* the tables the boot code set up: a level 4 table whose slot 0 leads to
\* 2 MiB identity mappings and whose slot 511 points at itself
BootP4 == [number |-> W(\h010a)]
BootP3 == [number |-> W(\h010b)]
BootP2 == [number |-> W(\h010c)]

\* the frames of the allocator, in the order it hands them out
Pool(k) == [number |-> W(\h0130 + k)]

\* What remap_the_kernel may find.  flags511: the flags of the recursive
\* slot of the boot table, which are the ones the boot code wrote and, once
\* the processor has walked and written through the entry, ACCESSED and DIRTY
\* with them.  junk: what the slots of the allocator's frames hold, nothing
\* or what is left of an earlier use.
BootVariants ==
    { [flags511 |-> RW, junk |-> Hex(\hdead, \hbeef, \hdead, \hbeef)],
      [flags511 |-> WOr(RW, WOr(ACCESSED, DIRTY)), junk |-> Zero] }

\* the sections the boot information is put together from
SectionChoices ==
    { [addr |-> W(\h100000), size |-> W(\h3000), flags |-> {"ALLOCATED", "WRITABLE"}],
      [addr |-> W(\h100000), size |-> W(\h3000), flags |-> {"WRITABLE"}],
      [addr |-> W(\h3ff000), size |-> W(\h2000), flags |-> {"ALLOCATED", "EXECUTABLE"}],
      [addr |-> W(\h100800), size |-> W(\h1000), flags |-> {"ALLOCATED", "WRITABLE"}],
      [addr |-> W(\h100000), size |-> W(\h1800), flags |-> {"ALLOCATED", "WRITABLE"}],
      [addr |-> Hex(\h0000, \h8000, \h0000, \h0000), size |-> W(\h1000),
       flags |-> {"ALLOCATED", "WRITABLE"}] }

\* the slots of a used frame that hold something
JunkSlots == {0, 1, \o031, \o400, \o776, \o777}

\* the 2 MiB pages the boot code mapped: the first one, where the kernel,
\* the boot tables and the allocator's frames lie
BootHugeSlots == {0}

SectionLists == UNION {[1..n -> SectionChoices] : n \in 0..MaxSections}

BootMemory(flags511, junk) ==
    [f \in {BootP4.number, BootP3.number, BootP2.number}
            \cup {Pool(k).number : k \in 0..(MaxFrames - 1)} |->
        IF f = BootP4.number
        THEN [i \in {0, 511} |->
                 IF i = 0 THEN Entry_set(BootP3, RW)
                 ELSE Entry_set(BootP4, flags511)]
        ELSE IF f = BootP3.number
        THEN [i \in {0} |-> Entry_set(BootP2, RW)]
        ELSE IF f = BootP2.number
        THEN [i \in BootHugeSlots |->
                 Entry_set([number |-> W(i * ENTRY_COUNT)], WOr(RW, HUGE_PAGE))]
        ELSE IF junk = Zero THEN ZeroedTable
        ELSE [i \in JunkSlots |-> junk]]

Init ==
    /\ cr3 = Frame_start_address(BootP4)
    /\ \E boot \in BootVariants : mem = BootMemory(boot.flags511, boot.junk)
    /\ \E n \in 0..MaxFrames : free = [k \in 1..n |-> Pool(k - 1)]
    /\ tiny = <<>>
    /\ sections \in SectionLists
    /\ pc = "start"
    /\ halted = ""
    /\ p4_frame = [number |-> Zero]
    /\ backup = [number |-> Zero]
    /\ sec = 0
    /\ address = Zero
    /\ events = <<>>
    /\ entry_at_call = Zero
    /\ nest = NestOff
    /\ arg = Zero
    /\ arg2 = Zero
    /\ op = "none"
    /\ ret = NoResult

\* the machine after a step: a panic stops the kernel where it is
Becomes(machine_after, next) ==
    \E m \in {machine_after} :
    /\ cr3' = m.cr3
    /\ mem' = m.mem
    /\ free' = m.free
    /\ tiny' = m.tiny
    /\ halted' = m.halted
    /\ pc' = IF m.halted # "" THEN "halted" ELSE next

\* line 144: TemporaryPage::new(Page { number: 0xcafebabe }, allocator)
TemporaryPageNew ==
    /\ pc = "start"
    /\ Becomes(TinyAllocator_new(M, TINY_FRAMES), "allocate")
    /\ UNCHANGED <<sections, p4_frame, backup, sec, address, events,
                   entry_at_call, pure, nest>>

\* line 149: allocator.allocate_frame().expect("no more frames")
AllocateP4Frame ==
    /\ pc = "allocate"
    /\ LET a == allocate_frame(M, "main")
       IN  /\ Becomes(IF a.some THEN a.m ELSE Halt(M, "no more frames"), "new_map")
           /\ p4_frame' = a.frame
    /\ UNCHANGED <<sections, backup, sec, address, events, entry_at_call, pure, nest>>

\* line 126: temporary_page.map_table_frame(frame.clone(), active_table)
NewMapTableFrame ==
    /\ pc = "new_map"
    /\ Becomes(map_table_frame(M, p4_frame), "new_zero")
    /\ events' = Append(events, "map")
    /\ UNCHANGED <<sections, p4_frame, backup, sec, address, entry_at_call, pure, nest>>

\* line 128: table.zero()
NewZero ==
    /\ pc = "new_zero"
    /\ Becomes(new_zero(M), "new_set")
    /\ events' = Append(events, "view")
    /\ UNCHANGED <<sections, p4_frame, backup, sec, address, entry_at_call, pure, nest>>

\* line 130: table[511].set(frame.clone(), PRESENT | WRITABLE)
NewSetRecursive ==
    /\ pc = "new_set"
    /\ Becomes(new_set_recursive(M, p4_frame), "new_unmap")
    /\ events' = Append(events, "view")
    /\ UNCHANGED <<sections, p4_frame, backup, sec, address, entry_at_call, pure, nest>>

\* a slip: InactivePageTable::new returns without the unmap of line 132
NewUnmap_omitted ==
    /\ pc = "new_unmap"
    /\ Becomes(M, "with")
    /\ UNCHANGED <<sections, p4_frame, backup, sec, address, events,
                   entry_at_call, pure, nest>>

\* line 132: temporary_page.unmap(active_table); InactivePageTable::new returns
NewUnmap ==
    /\ pc = "new_unmap"
    /\ Becomes(TemporaryPage_unmap(M), "with")
    /\ events' = Append(events, "unmap")
    /\ UNCHANGED <<sections, p4_frame, backup, sec, address, entry_at_call, pure, nest>>

\* another `with`: a call made while slot 511 of the active table does not
\* point at the active table is refused
WithMapBackup_guarded ==
    /\ pc = "with"
    /\ IF Entry_pointed_frame(Get(mem[Frame_containing_address(cr3).number], 511)).frame
              # Frame_containing_address(cr3)
       THEN /\ Becomes(Halt(M, "with is not reentrant"), "with")
            /\ UNCHANGED <<backup, entry_at_call, events>>
       ELSE /\ backup' = Frame_containing_address(cr3)
            /\ entry_at_call' = Get(mem[Frame_containing_address(cr3).number], 511)
            /\ Becomes(map_table_frame(M, Frame_containing_address(cr3)),
                       "with_overwrite")
            /\ events' = Append(events, "map")
    /\ UNCHANGED <<sections, p4_frame, sec, address, pure, nest>>

\* lines 93-97: backup = the frame in CR3; the temporary page is mapped to it
WithMapBackup ==
    /\ pc = "with"
    /\ backup' = Frame_containing_address(cr3)
    /\ entry_at_call' = Get(mem[Frame_containing_address(cr3).number], 511)
    /\ Becomes(map_table_frame(M, Frame_containing_address(cr3)), "with_overwrite")
    /\ events' = Append(events, "map")
    /\ UNCHANGED <<sections, p4_frame, sec, address, pure, nest>>

\* line 100: the recursive slot of the active table is pointed at the
\* inactive table
WithOverwrite ==
    /\ pc = "with_overwrite"
    /\ Becomes(with_overwrite(M, p4_frame), "with_flush")
    /\ events' = Append(events, "overwrite")
    /\ UNCHANGED <<sections, p4_frame, backup, sec, address, entry_at_call, pure, nest>>

\* a slip: the closure is started without the flush of line 101
WithFlush_omitted ==
    /\ pc = "with_flush"
    /\ Becomes(M, "section")
    /\ sec' = 1
    /\ UNCHANGED <<sections, p4_frame, backup, address, events, entry_at_call, pure, nest>>

\* line 101: flush_tlb(); the closure starts at the first section
WithFlush ==
    /\ pc = "with_flush"
    /\ Becomes(M, "section")
    /\ sec' = 1
    /\ events' = Append(events, "flush")
    /\ UNCHANGED <<sections, p4_frame, backup, address, entry_at_call, pure, nest>>

\* line 157: the sections are exhausted and the closure returns
SectionsDone ==
    /\ pc = "section"
    /\ sec > Len(sections)
    /\ Becomes(M, "with_restore")
    /\ UNCHANGED <<sections, p4_frame, backup, sec, address, events,
                   entry_at_call, pure, nest>>

\* lines 161-164: a section that is not loaded is passed over
SectionSkip ==
    /\ pc = "section"
    /\ sec <= Len(sections)
    /\ ~section_allocated(sections[sec])
    /\ Becomes(M, "section")
    /\ sec' = sec + 1
    /\ UNCHANGED <<sections, p4_frame, backup, address, events, entry_at_call, pure, nest>>

\* lines 166-176: the range of a loaded section
SectionBegin ==
    /\ pc = "section"
    /\ sec <= Len(sections)
    /\ section_allocated(sections[sec])
    /\ Becomes(M, "range")
    /\ address' = section_range(sections[sec]).start
    /\ UNCHANGED <<sections, p4_frame, backup, sec, events, entry_at_call, pure, nest>>

\* line 176: the range is exhausted
RangeEnd ==
    /\ pc = "range"
    /\ ~WLess(address, section_range(sections[sec]).end)
    /\ Becomes(M, "section")
    /\ sec' = sec + 1
    /\ UNCHANGED <<sections, p4_frame, backup, address, events, entry_at_call, pure, nest>>

\* lines 177-180: one address of the range
RangeMap ==
    /\ pc = "range"
    /\ WLess(address, section_range(sections[sec]).end)
    /\ IF WMod(address, PAGE_SIZE) # 0
       THEN /\ Becomes(Halt(M, "sections need to be page aligned"), "range")
            /\ UNCHANGED <<address, events>>
       ELSE /\ Becomes(identity_map(M, Frame_containing_address(address),
                                    section_flags(sections[sec]), "main"),
                       "range")
            /\ address' = WAdd(address, W(PAGE_SIZE))
            /\ events' = Append(events, "identity_map")
    /\ UNCHANGED <<sections, p4_frame, backup, sec, entry_at_call, pure, nest>>

\* line 107: the recursive slot is restored through the temporary page
WithRestore ==
    /\ pc = "with_restore"
    /\ Becomes(with_restore(M, backup), "with_flush2")
    /\ events' = Append(events, "restore")
    /\ UNCHANGED <<sections, p4_frame, backup, sec, address, entry_at_call, pure, nest>>

\* line 108: flush_tlb()
WithFlush2 ==
    /\ pc = "with_flush2"
    /\ Becomes(M, "with_unmap")
    /\ events' = Append(events, "flush")
    /\ UNCHANGED <<sections, p4_frame, backup, sec, address, entry_at_call, pure, nest>>

\* line 111: temporary_page.unmap(self); with and remap_the_kernel return
WithUnmap ==
    /\ pc = "with_unmap"
    /\ Becomes(TemporaryPage_unmap(M), "done")
    /\ events' = Append(events, "unmap")
    /\ UNCHANGED <<sections, p4_frame, backup, sec, address, entry_at_call, pure, nest>>

Next ==
    \/ TemporaryPageNew
    \/ AllocateP4Frame
    \/ NewMapTableFrame
    \/ NewZero
    \/ NewSetRecursive
    \/ NewUnmap
    \/ WithMapBackup
    \/ WithOverwrite
    \/ WithFlush
    \/ SectionsDone
    \/ SectionSkip
    \/ SectionBegin
    \/ RangeEnd
    \/ RangeMap
    \/ WithRestore
    \/ WithFlush2
    \/ WithUnmap

Spec == Init /\ [][Next]_vars

-----------------------------------------------------------------------------
(* A caller that enters `with` a second time.  remap_the_kernel does not: its *)
(* closure is handed a Mapper, and a second ActivePageTable comes only from   *)
(* the unsafe ActivePageTable::new().  Here the action of the first call      *)
(* makes such a second call, on the same active table, with a second          *)
(* inactive table, and with the same closure as its action.                    *)

\* how many frames the allocator holds when a second call is made
NestedFrames == 18

\* InactivePageTable::new(frame, active_table, temporary_page) as a whole
\* (lines 121-135)
InactivePageTable_new(m, frame) ==
    Let(map_table_frame(m, frame), LAMBDA mapped :
    Let(new_zero(mapped), LAMBDA zeroed :
    Let(new_set_recursive(zeroed, frame), LAMBDA set :
        TemporaryPage_unmap(set))))

\* The TemporaryPage the second call is given: the one of the first call, or
\* one of its own for the same page, TemporaryPage::new(Page { number:
\* 0xcafebabe }, allocator), with a pool of its own.
SecondTemporaryPage(m, own) ==
    IF own
    THEN Let(TinyAllocator_new([m EXCEPT !.tiny = <<>>], TINY_FRAMES), LAMBDA t :
             [m |-> [t EXCEPT !.tiny = m.tiny], pool |-> t.tiny])
    ELSE [m |-> m, pool |-> <<>>]

\* before the first call: the second inactive table is staged as the first was
\* (lines 148-151)
SecondInactiveTable ==
    /\ pc = "with"
    /\ nest.state = "none"
    /\ \E own \in BOOLEAN :
         \E t \in {SecondTemporaryPage(M, own)} :
         \E a \in {allocate_frame(t.m, "main")} :
           /\ Becomes(IF a.some THEN InactivePageTable_new(a.m, a.frame)
                      ELSE Halt(t.m, "no more frames"), "with")
           /\ nest' = [nest EXCEPT !.state = "ready", !.own = own,
                                   !.table = a.frame, !.pool = t.pool]
    /\ events' = events \o <<"map", "view", "view", "unmap">>
    /\ UNCHANGED <<sections, p4_frame, backup, sec, address, entry_at_call, pure>>

\* the action of the first call, between two sections, calls
\* with(&mut second_table, &mut temporary_page, f): the locals of the first
\* call are kept for its return
EnterInner ==
    /\ pc = "section"
    /\ nest.state = "ready"
    /\ nest' = [nest EXCEPT
                   !.state = "inner",
                   !.saved = [p4_frame |-> p4_frame, backup |-> backup,
                              sec |-> sec, address |-> address,
                              entry_at_call |-> entry_at_call],
                   !.pool = IF nest.own THEN tiny ELSE <<>>]
    /\ tiny' = IF nest.own THEN nest.pool ELSE tiny
    /\ p4_frame' = nest.table
    /\ pc' = "with"
    /\ UNCHANGED <<cr3, mem, free, sections, halted, backup, sec, address, events,
                   entry_at_call, pure>>

\* the second call has returned (line 112) and the action of the first goes on
ReturnInner ==
    /\ pc = "done"
    /\ nest.state = "inner"
    /\ nest' = [nest EXCEPT !.state = "returned",
                            !.pool = IF nest.own THEN tiny ELSE <<>>]
    /\ tiny' = IF nest.own THEN nest.pool ELSE tiny
    /\ p4_frame' = nest.saved.p4_frame
    /\ backup' = nest.saved.backup
    /\ sec' = nest.saved.sec
    /\ address' = nest.saved.address
    /\ entry_at_call' = nest.saved.entry_at_call
    /\ pc' = "section"
    /\ UNCHANGED <<cr3, mem, free, sections, halted, events, pure>>

\* the boot memory with NestedFrames frames for the allocator
NestedMemory(flags511, junk) ==
    [f \in DOMAIN BootMemory(flags511, junk)
            \cup {Pool(k).number : k \in 0..(NestedFrames - 1)} |->
        IF f \in DOMAIN BootMemory(flags511, junk)
        THEN BootMemory(flags511, junk)[f]
        ELSE IF junk = Zero THEN ZeroedTable
        ELSE [i \in JunkSlots |-> junk]]

ReentrantInit ==
    /\ cr3 = Frame_start_address(BootP4)
    /\ \E boot \in BootVariants : mem = NestedMemory(boot.flags511, boot.junk)
    /\ free = [k \in 1..NestedFrames |-> Pool(k - 1)]
    /\ tiny = <<>>
    /\ sections \in SectionLists
    /\ pc = "start"
    /\ halted = ""
    /\ p4_frame = [number |-> Zero]
    /\ backup = [number |-> Zero]
    /\ sec = 0
    /\ address = Zero
    /\ events = <<>>
    /\ entry_at_call = Zero
    /\ nest = [NestOff EXCEPT !.state = "none"]
    /\ arg = Zero
    /\ arg2 = Zero
    /\ op = "none"
    /\ ret = NoResult

ReentrantNext ==
    \/ Next
    \/ SecondInactiveTable
    \/ EnterInner
    \/ ReturnInner

SpecReentrant == ReentrantInit /\ [][ReentrantNext]_vars

-----------------------------------------------------------------------------
(* Claims about the machine, under Spec *)

\* the tables a table in frame f points at (not through the slots in `but`)
Children(memory, f, but) ==
    IF f \notin DOMAIN memory THEN {}
    ELSE { Entry_pointed_frame(memory[f][i]).frame.number :
             i \in { j \in DOMAIN memory[f] \ but :
                       /\ Contains(memory[f][j], PRESENT)
                       /\ ~Contains(memory[f][j], HUGE_PAGE) } }

\* the frames of the tables of the hierarchy rooted at the level 4 table in
\* frame `root`, the recursive slot of the root not followed
Hierarchy(memory, root) ==
    LET l3 == Children(memory, root, {511})
        l2 == UNION {Children(memory, f, {}) : f \in l3}
        l1 == UNION {Children(memory, f, {}) : f \in l2}
    IN  ({root} \cup l3 \cup l2 \cup l1) \cap DOMAIN memory

\* the present slots of the table in frame f
PresentSlots(memory, f) ==
    IF f \notin DOMAIN memory THEN {}
    ELSE {j \in DOMAIN memory[f] : Contains(memory[f][j], PRESENT)}

Target(memory, f, i) == Entry_pointed_frame(memory[f][i]).frame.number

\* every page the hierarchy rooted at `root` maps outside the recursive slot,
\* as <<p4 index, p3 index, p2 index, p1 index, frame number>>
MappedPages(memory, root) ==
    UNION { UNION { UNION {
        { <<i4, i3, i2, i1,
            Target(memory, Target(memory, Target(memory, Target(memory, root, i4), i3), i2), i1)>> :
            i1 \in PresentSlots(memory,
                       Target(memory, Target(memory, Target(memory, root, i4), i3), i2)) } :
        i2 \in PresentSlots(memory, Target(memory, Target(memory, root, i4), i3)) } :
        i3 \in PresentSlots(memory, Target(memory, root, i4)) } :
        i4 \in PresentSlots(memory, root) \ {511} }

\* the addresses remap_the_kernel is to map: every page-aligned address of
\* [start, end) of every allocated section
SectionPages(section) == WDiv(section.size, PAGE_SIZE)[1]

ExpectedAddresses ==
    UNION { { WAdd(sections[n].addr, W(k * PAGE_SIZE)) :
                k \in 0..(SectionPages(sections[n]) - 1) } :
            n \in {j \in DOMAIN sections : "ALLOCATED" \in sections[j].flags} }

AlignedSections ==
    \A n \in DOMAIN sections :
        /\ WMod(sections[n].addr, PAGE_SIZE) = 0
        /\ WMod(sections[n].size, PAGE_SIZE) = 0

\* the page-aligned addresses looked up in the staged table
ProbeAddresses ==
    {W(k * PAGE_SIZE) : k \in {0} \cup (\h0fe..\h105) \cup (\h3fd..\h403)}
        \cup {TemporaryTable, Frame_start_address(BootP4)}

RecursiveEntry(frame) == WAdd(Frame_start_address(frame), W(2^0 + 2^1))

\* C1 as the specification states it: after `with` has returned, slot 511 of
\* the backup table holds bit for bit the value it held when `with` was entered.
C1_RestoredBitForBit ==
    pc = "done" => Get(mem[backup.number], 511) = entry_at_call

\* C1, amended: after `with` has returned, slot 511 of the backup table holds
\* the address of the backup frame with exactly the flags PRESENT | WRITABLE;
\* this is the value from before the call exactly when the slot held the
\* self-reference with exactly these two flags before the call.
C1_RestoredSelfReference ==
    pc = "done" =>
        /\ Get(mem[backup.number], 511) = RecursiveEntry(backup)
        /\ (Get(mem[backup.number], 511) = entry_at_call)
               <=> (entry_at_call = RecursiveEntry(backup))

\* `with` has returned after its closure mapped a page, and slot 511 is what
\* it was
C1_Witness ==
    /\ pc = "done"
    /\ \E k \in DOMAIN events : events[k] = "identity_map"
    /\ Get(mem[backup.number], 511) = entry_at_call
    /\ backup = Frame_containing_address(cr3)

\* C2: when InactivePageTable::new has returned, slot 511 of the table in
\* `frame` is present and points at `frame`, and every other slot is zero,
\* whatever the frame held before.
C2_NewTableSelfReferential ==
    pc = "with" =>
        /\ Contains(Get(mem[p4_frame.number], 511), PRESENT)
        /\ Entry_pointed_frame(Get(mem[p4_frame.number], 511)).frame = p4_frame
        /\ \A i \in Slots \ {511} : Get(mem[p4_frame.number], i) = Zero

\* InactivePageTable::new has returned, and the frames of the allocator held
\* junk: the ones not handed out yet still do
C2_Witness ==
    /\ pc = "with"
    /\ Get(mem[Pool(MaxFrames - 1).number], 0) # Zero
    /\ Get(mem[p4_frame.number], 511) = RecursiveEntry(p4_frame)

ActionStepWritesInactive ==
    pc \in {"section", "range"} =>
          /\ \A f \in Hierarchy(mem, backup.number) : mem'[f] = mem[f]
          /\ \A f \in DOMAIN mem :
                 mem'[f] # mem[f] => f \in Hierarchy(mem', p4_frame.number)
          /\ (events' # events /\ halted' = "") =>
                 /\ HwWalk(mem', p4_frame.number, address).ok
                 /\ HwWalk(mem', p4_frame.number, address).frame
                        = Frame_containing_address(address).number
                 /\ ~HwWalk(mem', p4_frame.number, address).huge

\* C3: while the closure runs under `with`, no step changes a table of the
\* hierarchy rooted at the backup frame, every table a step changes belongs to
\* the hierarchy rooted at the inactive table's frame, and the page a step
\* maps is mapped by that hierarchy.
C3_ActionWritesInactive == [][ActionStepWritesInactive]_vars

\* the closure has mapped 0x3ff000 in the inactive hierarchy; the tables of
\* the backup hierarchy do not map it
C3_Witness ==
    /\ pc = "range"
    /\ halted = ""
    /\ events[Len(events)] = "identity_map"
    /\ HwWalk(mem, p4_frame.number, W(\h3ff000)).ok
    /\ Children(mem, BootP2.number, {}) = {}

\* the machine after a step
MAfter ==
    [cr3 |-> cr3', mem |-> mem', free |-> free', tiny |-> tiny', halted |-> halted']

IdentityMapStepTranslates ==
    (pc = "range" /\ events' # events /\ halted' = "") =>
          LET f == Frame_containing_address(address)
          IN  /\ translate(MAfter, Frame_start_address(f)).some
              /\ translate(MAfter, Frame_start_address(f)).address
                     = Frame_start_address(f)
              /\ Frame_start_address(f) = address

\* C4: when identity_map(f, flags, allocator) has returned,
\* translate(f.start_address()) on the same Mapper is Some(f.start_address()).
C4_IdentityMapTranslates == [][IdentityMapStepTranslates]_vars

\* identity_map has returned for the frame at 0x400000, which needed a level 1
\* table of its own
C4_Witness ==
    /\ pc = "range"
    /\ halted = ""
    /\ events[Len(events)] = "identity_map"
    /\ address = W(\h401000)
    /\ translate(M, W(\h400000)) = [some |-> TRUE, address |-> W(\h400000)]

\* C5: when remap_the_kernel has returned for sections with page-aligned
\* boundaries, the staged table maps a page-aligned address to itself exactly
\* when the address lies in [start, end) of an allocated section, and maps
\* nothing else outside the recursive slot.
C5_StagedTableMirrorsSections ==
    (pc = "done" /\ AlignedSections) =>
        /\ MappedPages(mem, p4_frame.number)
               = { <<HwIndex(a, 4), HwIndex(a, 3), HwIndex(a, 2), HwIndex(a, 1),
                     WDiv(a, PAGE_SIZE)>> : a \in ExpectedAddresses }
        /\ \A a \in ProbeAddresses :
               IF a \in ExpectedAddresses
               THEN /\ HwWalk(mem, p4_frame.number, a).ok
                    /\ WMul(HwWalk(mem, p4_frame.number, a).frame, PAGE_SIZE) = a
               ELSE ~HwWalk(mem, p4_frame.number, a).ok

\* the scenario of the specification: one section at 0x100000 of size 0x3000
C5_Witness ==
    /\ pc = "done"
    /\ Len(sections) = 1
    /\ sections[1].addr = W(\h100000)
    /\ HwWalk(mem, p4_frame.number, W(\h100000)).frame = W(\h100)
    /\ HwWalk(mem, p4_frame.number, W(\h101000)).frame = W(\h101)
    /\ HwWalk(mem, p4_frame.number, W(\h102000)).frame = W(\h102)
    /\ ~HwWalk(mem, p4_frame.number, W(\h103000)).ok

UnallocatedSectionStep ==
    (/\ pc \in {"section", "range"}
        /\ sec \in DOMAIN sections
        /\ "ALLOCATED" \notin sections[sec].flags) =>
          /\ mem' = mem
          /\ free' = free
          /\ tiny' = tiny
          /\ pc' = "section"
          /\ sec' = sec + 1

\* C6: while the closure is at a section that is not flagged allocated, no
\* step changes a table or takes a frame from the allocator.
C6_UnallocatedSectionIgnored == [][UnallocatedSectionStep]_vars

\* a section that is not allocated has been passed over, after a section that
\* was mapped
C6_Witness ==
    /\ pc = "section"
    /\ sec = 3
    /\ "ALLOCATED" \in sections[1].flags
    /\ "ALLOCATED" \notin sections[2].flags
    /\ halted = ""

RootRegisterStep ==
    /\ cr3' = cr3
       /\ p4_frame'.number # Zero =>
              Frame_containing_address(cr3').number # p4_frame'.number

\* C7: no step of InactivePageTable::new, ActivePageTable::with and
\* remap_the_kernel changes the root-table register, and the frame in it is
\* never the frame of the inactive table.
C7_RootRegisterOnlyRead == [][RootRegisterStep]_vars

\* remap_the_kernel has returned; the register holds the backup frame
C7_Witness ==
    /\ pc = "done"
    /\ Frame_containing_address(cr3) = backup
    /\ p4_frame.number # Zero
    /\ backup # p4_frame

-----------------------------------------------------------------------------
(* Section boundaries *)

\* a boundary of the section, its start or its end, is not a multiple of
\* PAGE_SIZE
Misaligned(section) ==
    \/ WMod(section.addr, PAGE_SIZE) # 0
    \/ WMod(WAdd(section.addr, section.size), PAGE_SIZE) # 0

\* the section holds every byte of the page at address a
Covers(section, a) ==
    /\ ~WLess(a, section.addr)
    /\ ~WLess(WAdd(section.addr, section.size), WAdd(a, W(PAGE_SIZE)))

\* the pages the staged table maps of which section n holds a part and no
\* allocated section the whole
PartlyCovered(n) ==
    { a \in {WAdd(W(WDiv(sections[n].addr, PAGE_SIZE)[1] * PAGE_SIZE),
                  W(k * PAGE_SIZE)) : k \in 0..SectionPages(sections[n])} :
        /\ HwWalk(mem, p4_frame.number, a).ok
        /\ \A j \in DOMAIN sections :
               "ALLOCATED" \in sections[j].flags => ~Covers(sections[j], a) }

\* C11: the closure never gets past an allocated section one of whose
\* boundaries is not page-aligned (it halts on the assertion of line 177
\* before), and the staged table maps no page that such a section covers only
\* in part.
C11_MisalignedBoundaryHalts ==
    \A n \in DOMAIN sections :
        ("ALLOCATED" \in sections[n].flags /\ Misaligned(sections[n])) =>
            /\ sec <= n
            /\ (sec = n => PartlyCovered(n) = {})

\* remap_the_kernel has returned for the section of 0x1800 bytes at 0x100000:
\* no assertion failed, and the page at 0x101000, which the section covers to
\* its middle, is mapped
C11_Witness ==
    /\ pc = "done"
    /\ halted = ""
    /\ Len(sections) = 1
    /\ sections[1].addr = W(\h100000)
    /\ sections[1].size = W(\h1800)
    /\ "ALLOCATED" \in sections[1].flags
    /\ HwWalk(mem, p4_frame.number, W(\h101000)).ok
    /\ HwWalk(mem, p4_frame.number, W(\h101000)).frame = W(\h101)

-----------------------------------------------------------------------------
(* Allocator exhaustion *)

\* how many of the three tables below the root the walk from `root` to the
\* level 1 table of vaddr lacks
MissingTables(memory, root, vaddr) ==
    Let(HwStep(memory, [ok |-> TRUE, frame |-> root, huge |-> FALSE],
               HwIndex(vaddr, 4)), LAMBDA t3 :
        IF ~t3.ok THEN 3
        ELSE
    Let(HwStep(memory, t3, HwIndex(vaddr, 3)), LAMBDA t2 :
        IF ~t2.ok THEN 2
        ELSE
    Let(HwStep(memory, t2, HwIndex(vaddr, 2)), LAMBDA t1 :
        IF ~t1.ok THEN 1 ELSE 0)))

\* Every slot of the table of the given level in frame f is zero or holds a
\* present entry, and a present entry of a table above level 1 is a 2 MiB or
\* 1 GiB page, the recursive slot of a root table, or points at a table of
\* which the same is true.
RECURSIVE Whole(_, _, _)
Whole(memory, f, level) ==
    /\ f \in DOMAIN memory
    /\ \A i \in DOMAIN memory[f] :
           /\ Contains(memory[f][i], PRESENT)
           /\ \/ level = 1
              \/ level \in {2, 3} /\ Contains(memory[f][i], HUGE_PAGE)
              \/ /\ level = 4
                 /\ i = 511
                 /\ Target(memory, f, i) \in DOMAIN memory
              \/ /\ level > 1
                 /\ ~(level = 4 /\ i = 511)
                 /\ Whole(memory, Target(memory, f, i), level - 1)

\* the closure is about to call identity_map for the page at `address`
AtIdentityMap ==
    /\ pc = "range"
    /\ WLess(address, section_range(sections[sec]).end)
    /\ WMod(address, PAGE_SIZE) = 0
    /\ Page_containing_address_assert(address)

ExhaustionStep ==
    AtIdentityMap =>
        /\ (MissingTables(mem, p4_frame.number, address) > Len(free))
               <=> (halted' = "no frames available")
        /\ halted' = "no frames available" =>
               /\ pc' = "halted"
               /\ free' = <<>>
               /\ Whole(mem', p4_frame.number, 4)
               /\ Whole(mem', Frame_containing_address(cr3).number, 4)
               /\ ~HwWalk(mem', p4_frame.number, address).ok

\* C12: identity_map halts the kernel exactly when the tables the page still
\* lacks outnumber the frames the allocator has left, and at the halt every
\* entry of the staged and of the active hierarchy is zero or present, a
\* present entry above level 1 leads to a table of which the same is true,
\* and the page is not mapped.
C12_ExhaustionLeavesNoPartialEntry == [][ExhaustionStep]_vars

\* the kernel has halted for want of a frame after the level 3 table of the
\* page was created in a frame that held junk
C12_Witness ==
    /\ halted = "no frames available"
    /\ Children(mem, p4_frame.number, {511}) # {}
    /\ Get(mem[Pool(MaxFrames - 1).number], 0) # Zero
    /\ free = <<>>

-----------------------------------------------------------------------------
(* The order of frames, under SpecPure *)

\* C13 as the specification states it: x < y exactly when x.start_address() <
\* y.start_address(), and x == y exactly when the start addresses are equal,
\* for all frames x and y.
C13_OrderAgreesWithAddresses ==
    op = "Frame::cmp" =>
        /\ ret.halt = ""
        /\ ret.lt <=> WLess(ret.start, ret.start2)
        /\ ret.eq <=> (ret.start = ret.start2)

\* C13, amended: of two frames exactly one of x < y, x == y and y < x holds,
\* the order is transitive, and for frames of numbers below 2^52 (every frame
\* Frame::containing_address returns) start_address() does not overflow,
\* x < y exactly when x.start_address() < y.start_address(), and x == y
\* exactly when the start addresses are equal.
C13_FrameOrderAgreesBelowOverflow ==
    op = "Frame::cmp" =>
        /\ Cardinality({b \in {"lt", "eq", "gt"} : ret[b]}) = 1
        /\ \A z \in CompareWords :
               (ret.lt /\ Frame_lt([number |-> arg2], [number |-> z]))
                   => Frame_lt([number |-> arg], [number |-> z])
        /\ (arg[4] < 2^4 /\ arg2[4] < 2^4) =>
               /\ ret.halt = ""
               /\ ret.lt <=> WLess(ret.start, ret.start2)
               /\ ret.eq <=> (ret.start = ret.start2)
               /\ ret.gt <=> WLess(ret.start2, ret.start)

\* two frames of numbers just below 2^52, compared and found in the order of
\* their addresses
C13_Witness ==
    /\ op = "Frame::cmp"
    /\ arg = Hex(\h000f, \h7fff, \hcafe, \hbabe)
    /\ arg2 = Hex(\h000f, \hffff, \hffff, \hffff)
    /\ ret.halt = ""
    /\ ret.lt
    /\ WLess(ret.start, ret.start2)

-----------------------------------------------------------------------------
(* The order of the steps of `with` *)

\* the steps InactivePageTable::new takes before `with` is entered
NewEvents == <<"map", "view", "view", "unmap">>

\* the steps taken since `with` was entered
WithEvents ==
    IF Len(events) <= Len(NewEvents) THEN <<>>
    ELSE SubSeq(events, Len(NewEvents) + 1, Len(events))

\* the steps of a call of `with` whose action calls identity_map k times
WithOrder(k) ==
    <<"map", "overwrite", "flush">> \o [i \in 1..k |-> "identity_map"]
        \o <<"restore", "flush", "unmap">>

IdentityMaps(e) == Cardinality({i \in DOMAIN e : e[i] = "identity_map"})

\* C14: the steps of `with` are, in this order: the temporary page mapped to
\* the backup frame, slot 511 overwritten, the flush, the Mapper operations of
\* the action, slot 511 restored through the view of the temporary page, the
\* flush, the temporary page unmapped.  The action runs only after the first
\* flush, the restore finds the temporary page mapped to the backup frame,
\* and a call that returns has taken all the steps.
C14_WithStepsInOrder ==
    /\ Len(WithEvents) <= Len(WithOrder(IdentityMaps(WithEvents)))
    /\ WithEvents = SubSeq(WithOrder(IdentityMaps(WithEvents)), 1, Len(WithEvents))
    /\ pc \in {"section", "range"} =>
           /\ Len(WithEvents) >= 3
           /\ WithEvents[2] = "overwrite"
           /\ WithEvents[3] = "flush"
    /\ pc = "with_restore" =>
           HwWalk(mem, Frame_containing_address(cr3).number, TemporaryTable)
               = [ok |-> TRUE, frame |-> backup.number, huge |-> FALSE]
    /\ pc = "done" =>
           Len(WithEvents) = Len(WithOrder(IdentityMaps(WithEvents)))

\* `with` has returned after its action called identity_map three times
C14_Witness ==
    /\ pc = "done"
    /\ WithEvents = <<"map", "overwrite", "flush", "identity_map", "identity_map",
                      "identity_map", "restore", "flush", "unmap">>

-----------------------------------------------------------------------------
(* The temporary page *)

\* the steps that touch the temporary page: its mapping, the uses of the
\* table view it gives ("view" in InactivePageTable::new, "restore" in
\* `with`), and its unmapping
TemporarySteps ==
    SelectSeq(events, LAMBDA e : e \in {"map", "view", "restore", "unmap"})

\* the temporary page is mapped in the active table
TemporaryMapped ==
    HwWalk(mem, Frame_containing_address(cr3).number, TemporaryTable).ok

\* how many of the first k steps are `step`
CountOf(s, step, k) == Cardinality({i \in 1..k : s[i] = step})

\* C15: map and unmap of the temporary page alternate, starting with map: at
\* every step the maps so far are as many as the unmaps or one more, a map
\* comes only when they are as many, a use of the view or an unmap only when
\* there is one more; the page is mapped in the active table exactly while
\* there is one more (when the kernel has not halted in the step), and it is
\* unmapped when remap_the_kernel has returned.
C15_TemporaryPageAlternates ==
    /\ \A k \in DOMAIN TemporarySteps :
           LET maps == CountOf(TemporarySteps, "map", k - 1)
               unmaps == CountOf(TemporarySteps, "unmap", k - 1)
           IN  IF TemporarySteps[k] = "map" THEN maps = unmaps
               ELSE maps = unmaps + 1
    /\ halted = "" =>
           (TemporaryMapped <=>
               CountOf(TemporarySteps, "map", Len(TemporarySteps))
                   = CountOf(TemporarySteps, "unmap", Len(TemporarySteps)) + 1)
    /\ pc = "done" =>
           /\ ~TemporaryMapped
           /\ TemporarySteps = <<"map", "view", "view", "unmap",
                                 "map", "restore", "unmap">>

\* remap_the_kernel has returned: the page was mapped and unmapped twice, its
\* level 1 table is still there and its entry is zero
C15_Witness ==
    /\ pc = "done"
    /\ CountOf(events, "unmap", Len(events)) = 2
    /\ CountOf(events, "identity_map", Len(events)) > 0
    /\ MissingTables(mem, Frame_containing_address(cr3).number, TemporaryTable) = 0
    /\ ~TemporaryMapped

-----------------------------------------------------------------------------
(* The recursive mapping *)

\* slot 511 of the table in frame f is present and points at frame g
PointsAt(memory, f, g) ==
    /\ f \in DOMAIN memory
    /\ Contains(Get(memory[f], 511), PRESENT)
    /\ Entry_pointed_frame(Get(memory[f], 511)).frame.number = g

\* slot 511 of the active table has been overwritten and not yet restored
\* (a kernel that halts in between stays there)
InWindow ==
    /\ \E k \in DOMAIN events : events[k] = "overwrite"
    /\ ~\E k \in DOMAIN events : events[k] = "restore"

\* InactivePageTable::new has returned
NewReturned == Len(events) >= Len(NewEvents)

\* C16: outside the window between the overwrite and the restore of `with`,
\* slot 511 of the active level 4 table points at the frame in the root
\* register; once InactivePageTable::new has returned, slot 511 of the
\* inactive level 4 table points at the inactive table's own frame, during
\* the action, after the restore and after a halt as well.
C16_RecursiveMapping ==
    /\ ~InWindow =>
           PointsAt(mem, Frame_containing_address(cr3).number,
                    Frame_containing_address(cr3).number)
    /\ NewReturned => PointsAt(mem, p4_frame.number, p4_frame.number)

\* remap_the_kernel has returned after its action mapped pages: both tables
\* point at themselves, and the two are different tables
C16_Witness ==
    /\ pc = "done"
    /\ \E k \in DOMAIN events : events[k] = "identity_map"
    /\ ~InWindow
    /\ PointsAt(mem, backup.number, backup.number)
    /\ PointsAt(mem, p4_frame.number, p4_frame.number)
    /\ backup # p4_frame

-----------------------------------------------------------------------------
(* The flags of the mapped pages *)

\* the frames of the level 1 tables of the hierarchy rooted at `root`
Level1Tables(memory, root) ==
    LET l3 == Children(memory, root, {511})
        l2 == UNION {Children(memory, f, {}) : f \in l3}
    IN  UNION {Children(memory, f, {}) : f \in l2} \cap DOMAIN memory

\* the bits of an entry outside the address
FlagsOf(e) == <<e[1] % PAGE_SIZE, 0, 0, (e[4] \div 2^4) * 2^4>>

\* C17: every entry of a level 1 table of the staged hierarchy carries
\* exactly the flags PRESENT and WRITABLE, whatever the flags of the sections.
C17_Level1EntriesWritable ==
    NewReturned =>
        \A f \in Level1Tables(mem, p4_frame.number) :
            \A i \in DOMAIN mem[f] : FlagsOf(mem[f][i]) = RW

\* remap_the_kernel has returned for a section that is executable and not
\* writable: its pages are mapped present and writable
C17_Witness ==
    /\ pc = "done"
    /\ Len(sections) = 1
    /\ sections[1].flags = {"ALLOCATED", "EXECUTABLE"}
    /\ Level1Tables(mem, p4_frame.number) # {}
    /\ \E f \in Level1Tables(mem, p4_frame.number) :
           Get(mem[f], \o777) = W(\h3ff000 + 2^0 + 2^1)

-----------------------------------------------------------------------------
(* What stops a mapping call *)

\* the entry of the level 1 table the walk from `root` reaches for vaddr
Level1Entry(memory, root, vaddr) ==
    Let(HwStep(memory, [ok |-> TRUE, frame |-> root, huge |-> FALSE],
               HwIndex(vaddr, 4)), LAMBDA t3 :
    Let(HwStep(memory, t3, HwIndex(vaddr, 3)), LAMBDA t2 :
    Let(HwStep(memory, t2, HwIndex(vaddr, 2)), LAMBDA t1 :
        IF t1.ok /\ ~t1.huge /\ t1.frame \in DOMAIN memory
        THEN Get(memory[t1.frame], HwIndex(vaddr, 1))
        ELSE Zero)))

\* the frames TemporaryPage's pool still holds
TinyLeft == Cardinality({k \in DOMAIN tiny : tiny[k].some})

\* The mapping call the next step makes, if it makes one: identity_map of the
\* closure (line 180) into the staged table, or map_to of map_table_frame
\* (lines 126 and 97) into the active table.
MappingCall ==
    IF pc = "range"
    THEN [made |-> /\ WLess(address, section_range(sections[sec]).end)
                   /\ WMod(address, PAGE_SIZE) = 0,
          identity |-> TRUE,
          root |-> p4_frame.number, vaddr |-> address,
          frame |-> Frame_containing_address(address),
          flags |-> WRITABLE, left |-> Len(free)]
    ELSE [made |-> pc \in {"new_map", "with"},
          identity |-> FALSE,
          root |-> Frame_containing_address(cr3).number,
          vaddr |-> TemporaryTable,
          frame |-> IF pc = "with" THEN Frame_containing_address(cr3)
                    ELSE p4_frame,
          flags |-> WRITABLE, left |-> TinyLeft]

\* the call is given every frame it asks for
EnoughFrames(call) == MissingTables(mem, call.root, call.vaddr) <= call.left

\* the call has returned and the page's level 1 entry is the frame with
\* flags | PRESENT
Completes(call) ==
    /\ halted' = ""
    /\ Level1Entry(mem', call.root, call.vaddr)
           = WOr(Frame_start_address(call.frame), WOr(call.flags, PRESENT))

OnlyExhaustionStep ==
    (MappingCall.made /\ EnoughFrames(MappingCall)) => Completes(MappingCall)

\* C18 as the specification states it: a mapping call that is given every
\* frame it asks for completes and leaves the page's level 1 entry set to the
\* frame with flags | PRESENT.
C18_FailsOnlyByExhaustion == [][OnlyExhaustionStep]_vars

\* the start address of the frame identity_map is called with is canonical
CanonicalCall(call) ==
    call.identity => Page_containing_address_assert(Frame_start_address(call.frame))

ExhaustionOrAssertionStep ==
    MappingCall.made =>
        /\ (EnoughFrames(MappingCall) /\ CanonicalCall(MappingCall))
               => Completes(MappingCall)
        /\ ~CanonicalCall(MappingCall)
               => (halted' = "invalid address" /\ mem' = mem /\ free' = free)
        /\ (CanonicalCall(MappingCall) /\ ~EnoughFrames(MappingCall))
               => halted' = "no frames available"

\* C18, amended: a mapping call fails only by frame exhaustion or, in
\* identity_map, on the assertion of Page::containing_address when the start
\* address of the frame is not canonical.  A call that is given every frame
\* it asks for, for a frame of canonical start address, completes and leaves
\* the page's level 1 entry set to the frame with flags | PRESENT, also when
\* the page is mapped already.
C18_FailsByExhaustionOrAssertion == [][ExhaustionOrAssertionStep]_vars

\* the second of two equal sections is being mapped: the page at 0x100000 was
\* mapped already when identity_map was called for it again
C18_Witness ==
    /\ pc = "range"
    /\ halted = ""
    /\ sec = 2
    /\ sections[1] = sections[2]
    /\ "ALLOCATED" \in sections[1].flags
    /\ address = W(\h101000)
    /\ Level1Entry(mem, p4_frame.number, W(\h100000)) = W(\h100000 + 2^0 + 2^1)

-----------------------------------------------------------------------------
(* A second entry of `with` *)

\* the frame of the active level 4 table
ActiveTable == Frame_containing_address(cr3).number

\* the frames whose contents a step changes
Written == {f \in DOMAIN mem : mem'[f] # mem[f]}

\* the second call is entered while slot 511 of the active table still points
\* at the inactive table of the first call: nothing refuses it (with a
\* temporary page of its own the first statement of the second call
\* completes; with the temporary page of the first call the only halt is the
\* exhaustion of that page's three frames)
SecondEntryStep ==
    (nest.state = "inner" /\ pc = "with") =>
        /\ PointsAt(mem, ActiveTable, nest.saved.p4_frame.number)
        /\ halted' \in {"", "no frames available"}
        /\ nest.own => halted' = "" /\ pc' = "with_overwrite"

\* when the second call returns, slot 511 of the active table points at the
\* active table, not at the inactive table of the first call
SecondReturnStep ==
    (nest.state = "inner" /\ nest'.state = "returned") =>
        /\ PointsAt(mem', ActiveTable, ActiveTable)
        /\ ~PointsAt(mem', ActiveTable, p4_frame'.number)

\* the Mapper operations the first action still makes change no table of the
\* hierarchy of its inactive table; what they change are tables of the
\* hierarchy of the active table
RemainingMapperStep ==
    (nest.state = "returned" /\ pc = "range") =>
        /\ Written \cap Hierarchy(mem, p4_frame.number) = {}
        /\ Written \subseteq Hierarchy(mem', ActiveTable)

\* what a step of a caller that enters `with` twice does
ReentryStep == SecondEntryStep /\ SecondReturnStep /\ RemainingMapperStep

\* C19: `with` entered a second time on the same active table before the
\* first call has restored slot 511 is not refused; after the second call
\* returns, slot 511 of the active table no longer points at the inactive
\* table of the first call, and the remaining Mapper operations of the first
\* action are applied to another hierarchy than that of its inactive table.
C19_SecondEntryUnguarded == [][ReentryStep]_vars

\* after the second call returned, the first action has gone on to map
\* 0x3ff000: the page, which the boot tables do not map, is now mapped in the
\* hierarchy of the active table
C19_Witness ==
    /\ nest.state = "returned"
    /\ nest.own
    /\ halted = ""
    /\ pc = "range"
    /\ events[Len(events)] = "identity_map"
    /\ HwWalk(mem, ActiveTable, W(\h3ff000)).ok
    /\ ~PointsAt(mem, ActiveTable, p4_frame.number)

====
